---------------------------- MODULE Spec2Model ----------------------------
(***************************************************************************)
(* PostForge converter: the WhatsApp preprocessor, the Unicode formatter   *)
(* and the platform presets, as functions over texts.                      *)
(*                                                                         *)
(* A text is a sequence of Unicode code points (naturals).  Every regular  *)
(* expression of the source is a "span rule": an opening delimiter with    *)
(* its look-behind and look-ahead classes, a class the content must stay   *)
(* in, a minimal content length, and a closing delimiter with its          *)
(* look-ahead class.  A rule is matched the way the JavaScript engine      *)
(* matches it: leftmost start, then the shortest (lazy) content.           *)
(***************************************************************************)
EXTENDS Integers, Sequences, FiniteSets, TLC

VARIABLES input, op, arg, result, page, editor

vars == <<input, op, arg, result, page, editor>>

---------------------------------------------------------------------------
(* Code points the source names in its patterns and templates.             *)

NUL == 0
NL == 10
SP == 32
Quote == 34
Hash == 35
Dollar == 36
Amp == 38
Apos == 39
Star == 42
Dash == 45
Lt == 60
Gt == 62
Backslash == 92
Underscore == 95
Backtick == 96
Tilde == 126
Bullet == 8226

(* The bounds of the model. *)
MaxLen == 5
MaxPreLen == 5
MaxFmtLen == 4
MaxInner == 3
MaxGlyphs == 2
MaxHtmlLen == 3
MaxConvLen == 4
MaxBetween == 2
MaxPending == 2
MaxDraftLen == 2
TickMs == 250

Digit == 48..57
UpperCase == 65..90
LowerCase == 97..122
AlphaNum == Digit \cup UpperCase \cup LowerCase
WordChar == AlphaNum \cup {Underscore}
HexDigit == Digit \cup (65..70) \cup (97..102)
LineTerminator == {10, 13, 8232, 8233}
WhiteSpace == {9, 10, 11, 12, 13, 32, 160, 5760, 8232, 8233, 8239, 8287, 12288, 65279}
                 \cup (8192..8202)

---------------------------------------------------------------------------
(* Sequence helpers.                                                       *)

None == [none |-> TRUE]

Min(S) == CHOOSE x \in S : \A y \in S : x <= y

(* The letters of the documents: `a`, which is also a hexadecimal digit,   *)
(* and `g`, the first letter that is not one.                              *)
LowerA == Min(LowerCase)
LowerG == Min(LowerCase \ HexDigit)

(* JavaScript's t.slice(a) and t.slice(0, b), with 1-based positions:      *)
(* From(t, i) is the text from position i on, Upto(t, i) the text before   *)
(* position i.                                                             *)
From(t, i) == IF i > Len(t) THEN <<>> ELSE SubSeq(t, IF i < 1 THEN 1 ELSE i, Len(t))
Upto(t, i) == IF i <= 1 THEN <<>> ELSE SubSeq(t, 1, IF i - 1 > Len(t) THEN Len(t) ELSE i - 1)

(* The concatenation of the texts of ss (Array.prototype.join('')). *)
RECURSIVE Flatten(_)
Flatten(ss) ==
    IF Len(ss) = 0 THEN <<>>
    ELSE IF Len(ss) = 1 THEN ss[1]
    ELSE LET half == Len(ss) \div 2
         IN  Flatten(SubSeq(ss, 1, half)) \o Flatten(SubSeq(ss, half + 1, Len(ss)))

(* t holds p at position i. *)
At(t, i, p) == /\ i >= 1
               /\ i + Len(p) - 1 <= Len(t)
               /\ \A k \in 1..Len(p) : t[i + k - 1] = p[k]

(* String.prototype.indexOf, 1-based; 0 when p does not occur from `from`. *)
IndexOf(t, p, from) ==
    LET hits == {i \in from..(Len(t) - Len(p) + 1) : At(t, i, p)}
    IN  IF hits = {} THEN 0 ELSE Min(hits)

Contains(t, p) == IndexOf(t, p, 1) # 0

(* The decimal digits of n, as `${n}` writes them. *)
RECURSIVE Decimal(_)
Decimal(n) == IF n < 10 THEN <<48 + n>> ELSE Decimal(n \div 10) \o <<48 + (n % 10)>>

---------------------------------------------------------------------------
(* Span rules and their matching.                                          *)

Rule(open, notBefore, notAfterOpen, excl, min, close, notAfterClose) ==
    [open |-> open, notBefore |-> notBefore, notAfterOpen |-> notAfterOpen,
     excl |-> excl, min |-> min, close |-> close, notAfterClose |-> notAfterClose]

(* The end (exclusive) of the match of rule r that starts at position i of *)
(* t, 0 when r does not match there.                                       *)
MatchAt(t, i, r) ==
    IF ~At(t, i, r.open) THEN 0
    ELSE IF i > 1 /\ t[i - 1] \in r.notBefore THEN 0
    ELSE LET p == i + Len(r.open)
         IN  IF p <= Len(t) /\ t[p] \in r.notAfterOpen THEN 0
             ELSE LET ends == {e \in (p + r.min)..(Len(t) - Len(r.close) + 1) :
                                  /\ At(t, e, r.close)
                                  /\ \A k \in p..(e - 1) : t[k] \notin r.excl
                                  /\ LET q == e + Len(r.close)
                                     IN  q > Len(t) \/ t[q] \notin r.notAfterClose}
                  IN  IF ends = {} THEN 0 ELSE Min(ends) + Len(r.close)

(* The match of rule r at position i of t, as exec returns it: its bounds, *)
(* the matched text and the captured content.                              *)
MatchOf(t, i, r) ==
    LET e == MatchAt(t, i, r)
    IN  [start |-> i, end |-> e, match |-> SubSeq(t, i, e - 1),
         content |-> SubSeq(t, i + Len(r.open), e - Len(r.close) - 1)]

(* The first position from `from` where an alternative matches, 0 if none. *)
NextStart(t, rs, from) ==
    LET starts == {j \in from..Len(t) : \E k \in 1..Len(rs) : MatchAt(t, j, rs[k]) # 0}
    IN  IF starts = {} THEN 0 ELSE Min(starts)

(* The first alternative of rs that matches at position i. *)
FirstRule(t, rs, i) == rs[Min({k \in 1..Len(rs) : MatchAt(t, i, rs[k]) # 0})]

(* The matches of a global regular expression rs, a sequence of            *)
(* alternatives (r1|r2|...): leftmost first, at one position the first     *)
(* alternative that matches, each search resuming where the previous match *)
(* ended (lastIndex).                                                      *)
RECURSIVE MatchesFrom(_, _, _)
MatchesAfter(t, rs, m) == <<m>> \o MatchesFrom(t, rs, m.end)

MatchesAt(t, rs, i) ==
    IF i = 0 THEN <<>> ELSE MatchesAfter(t, rs, MatchOf(t, i, FirstRule(t, rs, i)))

MatchesFrom(t, rs, from) == MatchesAt(t, rs, NextStart(t, rs, from))

Matches(t, rs) == MatchesFrom(t, rs, 1)

(* String.prototype.replace with a global regular expression: every match  *)
(* ms[k] is replaced by repls[k], the text between the matches is kept.    *)
ReplaceMatches(t, ms, repls) ==
    LET n == Len(ms)
        piece(k) == SubSeq(t, IF k = 1 THEN 1 ELSE ms[k - 1].end, ms[k].start - 1)
                      \o repls[k]
    IN  Flatten([k \in 1..n |-> piece(k)])
          \o From(t, IF n = 0 THEN 1 ELSE ms[n].end)

(* The replacement '$1' and the replacement '': the captured content of    *)
(* each match, and nothing.                                                *)
Contents(ms) == [k \in 1..Len(ms) |-> ms[k].content]
Nothing(ms) == [k \in 1..Len(ms) |-> <<>>]

(* The replacement that puts the captured content between two delimiters   *)
(* (`_$1_`), except where keep holds: there the match is returned as is.   *)
Wrapped(ms, left, right, keep) ==
    [k \in 1..Len(ms) |-> IF k \in keep THEN ms[k].match
                          ELSE left \o ms[k].content \o right]

(* GetSubstitution for a string pattern (no captures): in the replacement  *)
(* text `$$` is a dollar, `$&` the matched text, "$`" the text before the  *)
(* match and `$'` the text after it.                                       *)
RECURSIVE Substitution(_, _, _, _)
Substitution(repl, matched, before, after) ==
    LET patterns == {i \in 1..(Len(repl) - 1) :
                        repl[i] = Dollar /\ repl[i + 1] \in {Dollar, Amp, Backtick, Apos}}
    IN  IF patterns = {} THEN repl
        ELSE LET i == Min(patterns)
             IN  Upto(repl, i)
                 \o (CASE repl[i + 1] = Dollar -> <<Dollar>>
                        [] repl[i + 1] = Amp -> matched
                        [] repl[i + 1] = Backtick -> before
                        [] OTHER -> after)
                 \o Substitution(From(repl, i + 2), matched, before, after)

(* String.prototype.replace(pattern: string, replacement: string): the     *)
(* first occurrence only; the text is unchanged when there is none.        *)
ReplaceFirst(t, p, repl) ==
    LET i == IndexOf(t, p, 1)
    IN  IF i = 0 THEN t
        ELSE Upto(t, i) \o Substitution(repl, p, Upto(t, i), From(t, i + Len(p)))
               \o From(t, i + Len(p))

---------------------------------------------------------------------------
(* The WhatsApp preprocessor (preprocess.ts).                              *)

(* /```[\s\S]*?```|~~~[\s\S]*?~~~/g *)
fenceRegex ==
    << Rule(<<Backtick, Backtick, Backtick>>, {}, {}, {}, 0,
            <<Backtick, Backtick, Backtick>>, {}),
       Rule(<<Tilde, Tilde, Tilde>>, {}, {}, {}, 0, <<Tilde, Tilde, Tilde>>, {}) >>

(* /`[^`\n]+`/g *)
inlineRegex == << Rule(<<Backtick>>, {}, {}, {Backtick, NL}, 1, <<Backtick>>, {}) >>

(* "__PROTECTED_FENCE_" and "__PROTECTED_INLINE_" *)
FencePrefix == <<95, 95, 80, 82, 79, 84, 69, 67, 84, 69, 68, 95, 70, 69, 78, 67, 69, 95>>
InlinePrefix == <<95, 95, 80, 82, 79, 84, 69, 67, 84, 69, 68, 95, 73, 78, 76, 73, 78, 69, 95>>

FencePlaceholder(n) == FencePrefix \o Decimal(n) \o <<Underscore, Underscore>>
InlinePlaceholder(n) == InlinePrefix \o Decimal(n) \o <<Underscore, Underscore>>

(* ranges.sort((a, b) => b.start - a.start) *)
RECURSIVE SortByStartDesc(_)
SortByStartDesc(rs) ==
    IF rs = <<>> THEN <<>>
    ELSE LET k == CHOOSE k \in 1..Len(rs) :
                      \A j \in 1..Len(rs) :
                          \/ rs[j].start < rs[k].start
                          \/ rs[j].start = rs[k].start /\ k <= j
         IN  <<rs[k]>> \o SortByStartDesc(SubSeq(rs, 1, k - 1) \o SubSeq(rs, k + 1, Len(rs)))

(* The loop that puts the placeholders in: result.slice(0, range.start) +  *)
(* range.placeholder + result.slice(range.end), range after range.         *)
RECURSIVE PutPlaceholders(_, _)
PutPlaceholders(t, ranges) ==
    IF ranges = <<>> THEN t
    ELSE LET r == Head(ranges)
         IN  PutPlaceholders(Upto(t, r.start) \o r.placeholder \o From(t, r.end),
                             Tail(ranges))

(* The ranges pushed by the first loop of protectCodeBlocks, one for each  *)
(* match of fenceRegex.                                                    *)
FenceRanges(fm) ==
    [k \in 1..Len(fm) |->
       [start |-> fm[k].start, end |-> fm[k].end, type |-> "fence",
        placeholder |-> FencePlaceholder(k - 1), original |-> fm[k].match]]

isInsideFence(m, fences) ==
    \E k \in 1..Len(fences) : m.start >= fences[k].start /\ m.start < fences[k].end

(* The ranges pushed by the second loop, one for each match of inlineRegex *)
(* that is not inside a fence, numbered after the fences.                  *)
InlineRanges(im, fences) ==
    LET outside == SelectSeq(im, LAMBDA m : ~isInsideFence(m, fences))
    IN  [k \in 1..Len(outside) |->
           [start |-> outside[k].start, end |-> outside[k].end, type |-> "inline",
            placeholder |-> InlinePlaceholder(Len(fences) + k - 1),
            original |-> outside[k].match]]

PlaceRanges(text, ranges) ==
    [text |-> PutPlaceholders(text, ranges), protectedRanges |-> ranges]

ProtectInline(text, fences) ==
    PlaceRanges(text,
                SortByStartDesc(fences \o InlineRanges(Matches(text, inlineRegex), fences)))

protectCodeBlocks(text) == ProtectInline(text, FenceRanges(Matches(text, fenceRegex)))

RECURSIVE restoreCodeBlocks(_, _)
restoreCodeBlocks(text, ranges) ==
    IF ranges = <<>> THEN text
    ELSE restoreCodeBlocks(ReplaceFirst(text, Head(ranges).placeholder, Head(ranges).original),
                           Tail(ranges))

(* The guard of the three replace callbacks: the match holds a placeholder. *)
HoldsPlaceholder(match, protectedRanges) ==
    \E k \in 1..Len(protectedRanges) : Contains(match, protectedRanges[k].placeholder)

(* The matches that hold a placeholder: the callback returns them as is. *)
Protected(ms, protectedRanges) ==
    {k \in 1..Len(ms) : HoldsPlaceholder(ms[k].match, protectedRanges)}

(* boldRegex without its three asterisk look-arounds. *)
boldRegexInsideRuns ==
    << Rule(<<Star>>, {Backslash}, {}, {Star, NL}, 1, <<Star>>, {}) >>

(* boldRegex with a content class that excludes the asterisk only. *)
boldRegexAcrossLines ==
    << Rule(<<Star>>, {Backslash, Star}, {Star}, {Star}, 1, <<Star>>, {Star}) >>

(* /(?<!\\)(?<!\*)\*(?!\*)([^\*\n]+?)\*(?!\*)/g *)
boldRegex == << Rule(<<Star>>, {Backslash, Star}, {Star}, {Star, NL}, 1, <<Star>>, {Star}) >>

(* italicRegex without its two alphanumeric look-arounds. *)
italicRegexInsideWords ==
    << Rule(<<Underscore>>, {Backslash}, {}, {Underscore, NL}, 1, <<Underscore>>, {}) >>

(* /(?<!\\)(?<![a-zA-Z0-9])_([^_\n]+?)_(?![a-zA-Z0-9])/g *)
italicRegex ==
    << Rule(<<Underscore>>, {Backslash} \cup AlphaNum, {}, {Underscore, NL}, 1,
            <<Underscore>>, AlphaNum) >>

(* /(?<!\\)(?<!~)~(?!~)([^~\n]+?)~(?!~)/g *)
strikeRegex == << Rule(<<Tilde>>, {Backslash, Tilde}, {Tilde}, {Tilde, NL}, 1, <<Tilde>>, {Tilde}) >>

(* text.replace(regex, (match, content, offset) => ...): a match that      *)
(* holds a placeholder is returned as is, any other is rewritten.          *)
ReplaceSpans(text, ms, left, right, protectedRanges) ==
    ReplaceMatches(text, ms, Wrapped(ms, left, right, Protected(ms, protectedRanges)))

transformBold(text, protectedRanges) ==
    ReplaceSpans(text, Matches(text, boldRegex), <<Star, Star>>, <<Star, Star>>,
                 protectedRanges)

transformItalic(text, protectedRanges) ==
    ReplaceSpans(text, Matches(text, italicRegex), <<Star>>, <<Star>>, protectedRanges)

transformStrikethrough(text, protectedRanges) ==
    ReplaceSpans(text, Matches(text, strikeRegex), <<Tilde, Tilde>>, <<Tilde, Tilde>>,
                 protectedRanges)

(* preprocessWhatsApp, statement by statement, on a record of its locals:  *)
(* `protectedRanges`, `processed`, the masked `text` (masked) and the      *)
(* value `processed` had after each transformation (struck, bolded,        *)
(* italicized); text is the value returned.                                *)
Protect(prot) ==
    [enabled |-> TRUE, protectedRanges |-> prot.protectedRanges, masked |-> prot.text,
     processed |-> prot.text, struck |-> <<>>, bolded |-> <<>>, italicized |-> <<>>,
     text |-> <<>>]

Processed(s, step, processed) == [s EXCEPT !.processed = processed, ![step] = processed]

Strike(s) == Processed(s, "struck", transformStrikethrough(s.processed, s.protectedRanges))

Bold(s) == Processed(s, "bolded", transformBold(s.processed, s.protectedRanges))

Italic(s) == Processed(s, "italicized", transformItalic(s.processed, s.protectedRanges))

Restore(s) == [s EXCEPT !.text = restoreCodeBlocks(s.processed, s.protectedRanges)]

(* preprocessWhatsApp with transformItalic called before transformBold. *)
preprocessStepsItalicFirst(in, options) ==
    IF ~options.enabled
    THEN [enabled |-> FALSE, text |-> in]
    ELSE Restore(Bold(Italic(Strike(Protect(protectCodeBlocks(in))))))

(* preprocessWhatsApp without its early return on !options.enabled. *)
preprocessStepsAlwaysOn(in, options) ==
    Restore(Italic(Bold(Strike(Protect(protectCodeBlocks(in))))))

preprocessSteps(in, options) ==
    IF ~options.enabled
    THEN [enabled |-> FALSE, text |-> in]
    ELSE Restore(Italic(Bold(Strike(Protect(protectCodeBlocks(in))))))

preprocessWhatsApp(in, options) == preprocessSteps(in, options).text

---------------------------------------------------------------------------
(* The Unicode formatter (unicode-formatter.ts).                           *)

(* 0x1D5D4, 0x1D5EE, 0x1D7EC; 0x1D608, 0x1D622; 0x1D63C, 0x1D656 *)
UNICODE_MAPS ==
    [bold |-> [upper |-> 120276, lower |-> 120302, digits |-> 120812],
     italic |-> [upper |-> 120328, lower |-> 120354],
     boldItalic |-> [upper |-> 120380, lower |-> 120406]]

(* char.charCodeAt(0) of one code point: the code point itself in the      *)
(* basic plane, the high surrogate of its pair above it.                   *)
CharCodeAt0(c) == IF c < 65536 THEN c ELSE 55296 + ((c - 65536) \div 1024)

toBoldChar(char) ==
    LET code == CharCodeAt0(char)
    IN  IF code >= 65 /\ code <= 90 THEN UNICODE_MAPS.bold.upper + (code - 65)
        ELSE IF code >= 97 /\ code <= 122 THEN UNICODE_MAPS.bold.lower + (code - 97)
        ELSE IF code >= 48 /\ code <= 57 THEN UNICODE_MAPS.bold.digits + (code - 48)
        ELSE char

(* toItalicChar with the digit branch of toBoldChar. *)
toItalicCharWithDigits(char) ==
    LET code == CharCodeAt0(char)
    IN  IF code >= 65 /\ code <= 90 THEN UNICODE_MAPS.italic.upper + (code - 65)
        ELSE IF code >= 97 /\ code <= 122 THEN UNICODE_MAPS.italic.lower + (code - 97)
        ELSE IF code >= 48 /\ code <= 57 THEN UNICODE_MAPS.bold.digits + (code - 48)
        ELSE char

toItalicChar(char) ==
    LET code == CharCodeAt0(char)
    IN  IF code >= 65 /\ code <= 90 THEN UNICODE_MAPS.italic.upper + (code - 65)
        ELSE IF code >= 97 /\ code <= 122 THEN UNICODE_MAPS.italic.lower + (code - 97)
        ELSE char

toBoldItalicChar(char) ==
    LET code == CharCodeAt0(char)
    IN  IF code >= 65 /\ code <= 90 THEN UNICODE_MAPS.boldItalic.upper + (code - 65)
        ELSE IF code >= 97 /\ code <= 122 THEN UNICODE_MAPS.boldItalic.lower + (code - 97)
        ELSE char

toBold(text) == [k \in 1..Len(text) |-> toBoldChar(text[k])]
toItalic(text) == [k \in 1..Len(text) |-> toItalicChar(text[k])]
toBoldItalic(text) == [k \in 1..Len(text) |-> toBoldItalicChar(text[k])]

(* /`([^`]+)`/g *)
codeRegex == << Rule(<<Backtick>>, {}, {}, {Backtick}, 1, <<Backtick>>, {}) >>

(* /\*\*\*(.+?)\*\*\*/g, /\*\*(.+?)\*\*/g, /\*(.+?)\*/g and /_(.+?)_/g *)
boldItalicSpan ==
    << Rule(<<Star, Star, Star>>, {}, {}, LineTerminator, 1, <<Star, Star, Star>>, {}) >>
boldSpan == << Rule(<<Star, Star>>, {}, {}, LineTerminator, 1, <<Star, Star>>, {}) >>
italicSpan == << Rule(<<Star>>, {}, {}, LineTerminator, 1, <<Star>>, {}) >>
underscoreSpan == << Rule(<<Underscore>>, {}, {}, LineTerminator, 1, <<Underscore>>, {}) >>

(* `\u0000CODE${n}\u0000` *)
CodePlaceholder(n) == <<NUL, 67, 79, 68, 69>> \o Decimal(n) \o <<NUL>>

(* codeBlocks.forEach((code, index) => result = result.replace(..., code)) *)
RECURSIVE RestoreCode(_, _, _)
RestoreCode(text, codeBlocks, index) ==
    IF index >= Len(codeBlocks) THEN text
    ELSE RestoreCode(ReplaceFirst(text, CodePlaceholder(index), codeBlocks[index + 1]),
                     codeBlocks, index + 1)

(* The callbacks (_, content) => toBoldItalic(content), toBold(content)    *)
(* and toItalic(content).                                                  *)
Styled(style, content) ==
    CASE style = "boldItalic" -> toBoldItalic(content)
      [] style = "bold" -> toBold(content)
      [] style = "italic" -> toItalic(content)

StyleMatches(t, ms, style) ==
    ReplaceMatches(t, ms, [k \in 1..Len(ms) |-> Styled(style, ms[k].content)])

(* result.replace(regex, (_, content) => style(content)) *)
StyleSpans(t, rs, style) == StyleMatches(t, Matches(t, rs), style)

(* The first replace of markdownToUnicode: the k-th code span is pushed to *)
(* codeBlocks and replaced by the placeholder numbered k - 1.              *)
CodeBlocks(cm) == [k \in 1..Len(cm) |-> cm[k].match]
MaskCode(text, cm) == ReplaceMatches(text, cm, [k \in 1..Len(cm) |-> CodePlaceholder(k - 1)])

(* UnicodeWithCode with the bold rule run before the bold-italic rule. *)
UnicodeWithCodeBoldFirst(text, cm) ==
    RestoreCode(
        StyleSpans(
            StyleSpans(
                StyleSpans(
                    StyleSpans(MaskCode(text, cm), boldSpan, "bold"),
                    boldItalicSpan, "boldItalic"),
                italicSpan, "italic"),
            underscoreSpan, "italic"),
        CodeBlocks(cm), 0)

UnicodeWithCode(text, cm) ==
    RestoreCode(
        StyleSpans(
            StyleSpans(
                StyleSpans(
                    StyleSpans(MaskCode(text, cm), boldItalicSpan, "boldItalic"),
                    boldSpan, "bold"),
                italicSpan, "italic"),
            underscoreSpan, "italic"),
        CodeBlocks(cm), 0)

markdownToUnicode(text) == UnicodeWithCode(text, Matches(text, codeRegex))

(* text.split('\n') and lines.join('\n') *)
RECURSIVE Split(_)
Split(t) ==
    LET i == IndexOf(t, <<NL>>, 1)
    IN  IF i = 0 THEN <<t>> ELSE <<Upto(t, i)>> \o Split(From(t, i + 1))

RECURSIVE Join(_, _)
Join(parts, sep) ==
    IF parts = <<>> THEN <<>>
    ELSE IF Len(parts) = 1 THEN parts[1]
    ELSE parts[1] \o sep \o Join(Tail(parts), sep)

(* The end (exclusive) of the longest run of characters of class that      *)
(* starts at position i.                                                   *)
RunEnd(t, i, class) ==
    Min({e \in i..(Len(t) + 1) : e = Len(t) + 1 \/ t[e] \notin class})

(* [\s]*[-*]\s+ matched from position i: the end (exclusive) of the match  *)
(* and the position of the marker, or 0.                                   *)
ListMarkerAt(t, i) ==
    LET m == RunEnd(t, i, WhiteSpace)
        e == RunEnd(t, m + 1, WhiteSpace)
    IN  IF m <= Len(t) /\ t[m] \in {Dash, Star} /\ e > m + 1
        THEN [marker |-> m, end |-> e]
        ELSE [marker |-> 0, end |-> 0]

listToBullets(text) ==
    LET lines == Split(text)
        bullet(line) ==
            LET lm == ListMarkerAt(line, 1)
            IN  IF lm.end # 0
                THEN Upto(line, lm.marker) \o <<Bullet, SP>> \o From(line, lm.end)
                ELSE line
    IN  Join([k \in 1..Len(lines) |-> bullet(lines[k])], <<NL>>)

(* formatted.replace(/\n{1}(?!\n)/g, '\n\n') *)
DoubleNewlines(t) ==
    Flatten([k \in 1..Len(t) |->
               IF t[k] = NL /\ (k = Len(t) \/ t[k + 1] # NL) THEN <<NL, NL>> ELSE <<t[k]>>])

(* The matches of /#[\w]+/g. *)
RECURSIVE HashtagsFrom(_, _)
HashtagsFrom(t, from) ==
    LET starts == {j \in from..(Len(t) - 1) : t[j] = Hash /\ t[j + 1] \in WordChar}
    IN  IF starts = {} THEN <<>>
        ELSE LET i == Min(starts)
                 e == RunEnd(t, i + 1, WordChar)
             IN  <<[start |-> i, end |-> e, match |-> SubSeq(t, i, e - 1),
                    content |-> SubSeq(t, i + 1, e - 1)]>> \o HashtagsFrom(t, e)

hashtagRegex(t) == HashtagsFrom(t, 1)

(* String.prototype.trim *)
Trim(t) ==
    LET keep == {k \in 1..Len(t) : t[k] \notin WhiteSpace}
    IN  IF keep = {} THEN <<>>
        ELSE SubSeq(t, Min(keep), CHOOSE k \in keep : \A j \in keep : j <= k)

(* formatForLinkedIn, statement by statement, on a record of its locals:   *)
(* `formatted`, `hashtags`, and the value `formatted` had after each       *)
(* statement (unicode, stripped, bulleted, spaced, body); text is the      *)
(* value returned.                                                         *)
StartFormat(unicode) ==
    [unicode |-> unicode, formatted |-> unicode, stripped |-> <<>>, bulleted |-> <<>>,
     spaced |-> <<>>, hashtags |-> <<>>, body |-> <<>>, text |-> <<>>]

Formatted(s, step, formatted) == [s EXCEPT !.formatted = formatted, ![step] = formatted]

(* formatted.replace(/`([^`]+)`/g, '$1') *)
StripBackticks(s) ==
    Formatted(s, "stripped",
              ReplaceMatches(s.formatted, Matches(s.formatted, codeRegex),
                             Contents(Matches(s.formatted, codeRegex))))

Bullets(s) == Formatted(s, "bulleted", listToBullets(s.formatted))

Spacing(s) == Formatted(s, "spaced", DoubleNewlines(s.formatted))

(* formatted.replace(hashtagRegex, (match) => { hashtags.push(match); return ''; }) *)
TakeHashtags(s, hm) ==
    Formatted([s EXCEPT !.hashtags = [k \in 1..Len(hm) |-> hm[k].match]], "body",
              ReplaceMatches(s.formatted, hm, Nothing(hm)))

MoveHashtags(s) == TakeHashtags(s, hashtagRegex(s.formatted))

AppendHashtags(s) ==
    IF Len(s.hashtags) > 0
    THEN [s EXCEPT !.formatted = Trim(s.formatted) \o <<NL, NL>> \o Join(s.hashtags, <<SP>>)]
    ELSE s

TrimFormatted(s) == [s EXCEPT !.text = Trim(s.formatted)]

formatSteps(markdown) ==
    TrimFormatted(AppendHashtags(MoveHashtags(Spacing(Bullets(StripBackticks(
        StartFormat(markdownToUnicode(markdown))))))))

formatForLinkedIn(markdown) == formatSteps(markdown).text

---------------------------------------------------------------------------
(* The platform presets (presets.ts).                                      *)

(* convertMarkdownToHtml: the unified/remark/rehype pipeline is a          *)
(* collaborator outside the repository; its result is kept as the call,   *)
(* with the options as the callers pass them (smartQuotes is true by       *)
(* default).                                                               *)
convertMarkdownToHtml(markdown, options) ==
    [rendered |-> markdown, gfm |-> options.gfm, sanitize |-> options.sanitize,
     smartQuotes |-> options.smartQuotes]

(* &amp; &lt; &gt; &quot; &#039; *)
(* escapeHtml without its last replace: the apostrophe is kept. *)
escapeHtmlKeepsApostrophe(text) ==
    Flatten([k \in 1..Len(text) |->
               CASE text[k] = 38 -> <<38, 97, 109, 112, 59>>
                 [] text[k] = 60 -> <<38, 108, 116, 59>>
                 [] text[k] = 62 -> <<38, 103, 116, 59>>
                 [] text[k] = 34 -> <<38, 113, 117, 111, 116, 59>>
                 [] OTHER -> <<text[k]>>])

escapeHtml(text) ==
    Flatten([k \in 1..Len(text) |->
               CASE text[k] = 38 -> <<38, 97, 109, 112, 59>>
                 [] text[k] = 60 -> <<38, 108, 116, 59>>
                 [] text[k] = 62 -> <<38, 103, 116, 59>>
                 [] text[k] = 34 -> <<38, 113, 117, 111, 116, 59>>
                 [] text[k] = 39 -> <<38, 35, 48, 51, 57, 59>>
                 [] OTHER -> <<text[k]>>])

(* The matches of /^[\s]*[-*]\s+/gm: a match starts at the start of a line. *)
RECURSIVE ListMarkersFrom(_, _)
ListMarkersFrom(t, from) ==
    LET starts == {j \in from..Len(t) : /\ j = 1 \/ t[j - 1] \in LineTerminator
                                        /\ ListMarkerAt(t, j).end # 0}
    IN  IF starts = {} THEN 0
        ELSE 1 + ListMarkersFrom(t, ListMarkerAt(t, Min(starts)).end)

(* if (count > 0) notes.push(...) *)
Note(count, note) == IF count > 0 THEN <<[note |-> note, n |-> count]>> ELSE <<>>

LinkedInNotes(markdown) ==
    Note(Len(Matches(markdown, boldSpan)), "Converted N bold text(s) to Unicode bold")
    \o Note(Len(Matches(markdown, italicSpan)), "Converted N italic text(s) to Unicode italic")
    \o Note(ListMarkersFrom(markdown, 1), "Converted N list item(s) to bullets")
    \o Note(Len(hashtagRegex(markdown)), "Moved N hashtag(s) to end")
    \o <<[note |-> "Normalized paragraph spacing to double newlines", n |-> 0]>>

(* The result of applyLinkedInPreset, `processed` being steps.text. *)
LinkedInResult(markdown, steps) ==
    [ok |-> TRUE, markdown |-> steps.text,
     html |-> [open |-> "<div style=\"white-space: pre-wrap; ...\">",
               body |-> escapeHtml(steps.text), close |-> "</div>"],
     notes |-> LinkedInNotes(markdown),
     steps |-> steps]

applyLinkedInPreset(markdown) == LinkedInResult(markdown, formatSteps(markdown))

(* SingleNewlines with /\n\n/g for the expression: newlines go in pairs. *)
SingleNewlinesInPairs(t) ==
    LET others(k) == {0} \cup {j \in 1..(k - 1) : t[j] # NL}
        before(k) == k - 1 - (CHOOSE j \in others(k) : \A i \in others(k) : i <= j)
    IN  SelectSeq([k \in 1..Len(t) |-> IF t[k] = NL /\ before(k) % 2 = 1 THEN -1 ELSE t[k]],
                  LAMBDA c : c # -1)

(* processed.replace(/\n\n+/g, '\n') *)
SingleNewlines(t) ==
    SelectSeq([k \in 1..Len(t) |-> IF t[k] = NL /\ k > 1 /\ t[k - 1] = NL THEN -1 ELSE t[k]],
              LAMBDA c : c # -1)

(* /(?<!\*)\*(?!\*)([^*\n]+?)\*(?!\*)/g and /\*\*(.*?)\*\*/g *)
italicToUnderscore == << Rule(<<Star>>, {Star}, {Star}, {Star, NL}, 1, <<Star>>, {Star}) >>
boldToStar == << Rule(<<Star, Star>>, {}, {}, LineTerminator, 0, <<Star, Star>>, {}) >>

(* A replacement `_$1_` or `*$1*`: the captured content of every match      *)
(* between two delimiters.                                                 *)
Delimit(text, ms, left, right) == ReplaceMatches(text, ms, Wrapped(ms, left, right, {}))

(* WhatsAppItalic with the italic replacement run after the bold one. *)
WhatsAppItalicAfterBold(single) ==
    LET bold == Delimit(single, Matches(single, boldToStar), <<Star>>, <<Star>>)
    IN  [single |-> single,
         italic |-> Delimit(bold, Matches(bold, italicToUnderscore),
                            <<Underscore>>, <<Underscore>>)]

(* applyWhatsAppPreset after its first two replacements: `processed` with  *)
(* single newlines, then with its italic spans as _italic_.                *)
WhatsAppItalic(single) ==
    [single |-> single,
     italic |-> Delimit(single, Matches(single, italicToUnderscore),
                        <<Underscore>>, <<Underscore>>)]

WhatsAppResult(steps) ==
    [ok |-> TRUE,
     markdown |-> Delimit(steps.italic, Matches(steps.italic, boldToStar), <<Star>>, <<Star>>),
     html |-> [body |-> convertMarkdownToHtml(steps.single,
                            [gfm |-> TRUE, sanitize |-> TRUE, smartQuotes |-> TRUE]),
               em |-> "_$1_", strong |-> "*$1*"],
     notes |-> <<[note |-> "Normalized to single newlines for WhatsApp", n |-> 0],
                 [note |-> "Converted formatting to WhatsApp syntax", n |-> 0]>>,
     steps |-> steps]

applyWhatsAppPreset(markdown) == WhatsAppResult(WhatsAppItalic(SingleNewlines(markdown)))

(* applyEmailPreset with the markdown of the linkedin formatter. *)
applyEmailPresetFormatted(markdown) ==
    [ok |-> TRUE, markdown |-> formatForLinkedIn(markdown),
     html |-> [open |-> "<!DOCTYPE html>...<div class=\"email-container\">",
               body |-> convertMarkdownToHtml(formatForLinkedIn(markdown),
                            [gfm |-> TRUE, sanitize |-> TRUE, smartQuotes |-> TRUE]),
               close |-> "</div></body></html>"],
     notes |-> <<[note |-> "Generated full HTML email template", n |-> 0]>>,
     steps |-> None]

applyEmailPreset(markdown) ==
    [ok |-> TRUE, markdown |-> markdown,
     html |-> [open |-> "<!DOCTYPE html>...<div class=\"email-container\">",
               body |-> convertMarkdownToHtml(markdown,
                            [gfm |-> TRUE, sanitize |-> TRUE, smartQuotes |-> TRUE]),
               close |-> "</div></body></html>"],
     notes |-> <<[note |-> "Generated full HTML email template", n |-> 0]>>,
     steps |-> None]

(* applyPreset with a default that falls through to the email preset. *)
applyPresetDefaultEmail(markdown, preset) ==
    CASE preset = "linkedin" -> applyLinkedInPreset(markdown)
      [] preset = "whatsapp" -> applyWhatsAppPreset(markdown)
      [] OTHER -> applyEmailPreset(markdown)

(* The switch of applyPreset; its default throws. *)
applyPreset(markdown, preset) ==
    CASE preset = "linkedin" -> applyLinkedInPreset(markdown)
      [] preset = "whatsapp" -> applyWhatsAppPreset(markdown)
      [] preset = "email" -> applyEmailPreset(markdown)
      [] OTHER -> [ok |-> FALSE, error |-> "Unknown preset: " \o preset]

---------------------------------------------------------------------------
(* The converter (index.ts): preprocess, render, preset.                   *)

(* The destructuring default of convert's option `markdown`. *)
DefaultMarkdown == [gfm |-> TRUE, sanitize |-> TRUE, smartQuotes |-> TRUE]

(* Layer 1: processedMarkdown is the input, preprocessed when              *)
(* preprocess.enabled.                                                     *)
Layer1(in, preprocess) ==
    IF preprocess.enabled THEN preprocessWhatsApp(in, preprocess) ELSE in

(* The option `preset` is the sequence of the selector given, empty when   *)
(* it is undefined; `if (preset)` skips undefined and the empty selector.  *)
Falsy(preset) == preset = <<>> \/ preset = <<"">>

(* Layer 3 and the return: the preset's html and markdown replace the      *)
(* basic conversion; a throw of applyPreset rejects the call.              *)
Layer3(processedMarkdown, presetResult) ==
    IF ~presetResult.ok THEN presetResult
    ELSE [ok |-> TRUE, markdown |-> presetResult.markdown, html |-> presetResult.html,
          preset |-> presetResult, processedMarkdown |-> processedMarkdown]

(* Layer 2 and what follows it. *)
Layer2(processedMarkdown, markdown, preset) ==
    IF Falsy(preset)
    THEN [ok |-> TRUE, markdown |-> processedMarkdown,
          html |-> convertMarkdownToHtml(processedMarkdown, markdown),
          preset |-> None, processedMarkdown |-> processedMarkdown]
    ELSE Layer3(processedMarkdown, applyPreset(processedMarkdown, preset[1]))

(* convert with the preset applied to the input instead of the             *)
(* preprocessed markdown.                                                  *)
convertPresetOnInput(in, options) ==
    IF Falsy(options.preset)
    THEN Layer2(Layer1(in, options.preprocess), options.markdown, options.preset)
    ELSE Layer3(Layer1(in, options.preprocess), applyPreset(in, options.preset[1]))

convert(in, options) ==
    Layer2(Layer1(in, options.preprocess), options.markdown, options.preset)

---------------------------------------------------------------------------
(* The documents the functions are applied to.                             *)

RECURSIVE TextsUpTo(_, _)
TextsUpTo(alphabet, n) ==
    IF n = 0 THEN {<<>>}
    ELSE LET shorter == TextsUpTo(alphabet, n - 1)
         IN  shorter \cup {Append(t, c) : t \in shorter, c \in alphabet}

(* The inputs of the test suites (__tests__/ *.test.ts). *)

(* 'Hello *world*!' *)
HelloWorld ==
    <<72, 101, 108, 108, 111, 32, 42, 119, 111, 114, 108, 100, 42, 33>>

(* '*bold* and _italic_ and ~strike~' *)
MultipleFormatting ==
    <<42, 98, 111, 108, 100, 42, 32, 97, 110, 100, 32, 95, 105, 116, 97,
      108, 105, 99, 95, 32, 97, 110, 100, 32, 126, 115, 116, 114, 105, 107,
      101, 126>>

(* '**bold** and *italic* and ~~strike~~' *)
MultipleFormattingOut ==
    <<42, 42, 98, 111, 108, 100, 42, 42, 32, 97, 110, 100, 32, 42, 105,
      116, 97, 108, 105, 99, 42, 32, 97, 110, 100, 32, 126, 126, 115, 116,
      114, 105, 107, 101, 126, 126>>

(* 'Code: `*bold* _italic_ ~strike~`' *)
InlineCodeScenario ==
    <<67, 111, 100, 101, 58, 32, 96, 42, 98, 111, 108, 100, 42, 32, 95,
      105, 116, 97, 108, 105, 99, 95, 32, 126, 115, 116, 114, 105, 107,
      101, 126, 96>>

(* 'Not \\*bold\\* text' *)
EscapedScenario ==
    <<78, 111, 116, 32, 92, 42, 98, 111, 108, 100, 92, 42, 32, 116, 101,
      120, 116>>

(* 'my_variable_name' *)
SnakeCase ==
    <<109, 121, 95, 118, 97, 114, 105, 97, 98, 108, 101, 95, 110, 97, 109,
      101>>

(* '*text\nmore text*' *)
AcrossNewlines ==
    <<42, 116, 101, 120, 116, 10, 109, 111, 114, 101, 32, 116, 101, 120,
      116, 42>>

(* '**already bold**' *)
AlreadyBold ==
    <<42, 42, 97, 108, 114, 101, 97, 100, 121, 32, 98, 111, 108, 100, 42, 42>>

(* '~~already strike~~' *)
AlreadyStrike ==
    <<126, 126, 97, 108, 114, 101, 97, 100, 121, 32, 115, 116, 114, 105,
      107, 101, 126, 126>>

(* '```\n*not bold*\n_not italic_\n~not strike~\n```' *)
FencedScenario ==
    <<96, 96, 96, 10, 42, 110, 111, 116, 32, 98, 111, 108, 100, 42, 10, 95,
      110, 111, 116, 32, 105, 116, 97, 108, 105, 99, 95, 10, 126, 110, 111,
      116, 32, 115, 116, 114, 105, 107, 101, 126, 10, 96, 96, 96>>

(* '*bold* text `*not bold*` more *bold*' *)
MixedCodeScenario ==
    <<42, 98, 111, 108, 100, 42, 32, 116, 101, 120, 116, 32, 96, 42, 110,
      111, 116, 32, 98, 111, 108, 100, 42, 96, 32, 109, 111, 114, 101, 32,
      42, 98, 111, 108, 100, 42>>

(* '**Bold** text' *)
BoldText ==
    <<42, 42, 66, 111, 108, 100, 42, 42, 32, 116, 101, 120, 116>>

(* 'Check out #tech innovations\nThis is #amazing' *)
TwoHashtags ==
    <<67, 104, 101, 99, 107, 32, 111, 117, 116, 32, 35, 116, 101, 99, 104,
      32, 105, 110, 110, 111, 118, 97, 116, 105, 111, 110, 115, 10, 84,
      104, 105, 115, 32, 105, 115, 32, 35, 97, 109, 97, 122, 105, 110, 103>>

(* 'Color palette:\n- Primary: #671de7\n- Secondary: #5cbaf0\n- Background: #f6f9f8\n\n#design #branding' *)
HexPalette ==
    <<67, 111, 108, 111, 114, 32, 112, 97, 108, 101, 116, 116, 101, 58, 10,
      45, 32, 80, 114, 105, 109, 97, 114, 121, 58, 32, 35, 54, 55, 49, 100,
      101, 55, 10, 45, 32, 83, 101, 99, 111, 110, 100, 97, 114, 121, 58,
      32, 35, 53, 99, 98, 97, 102, 48, 10, 45, 32, 66, 97, 99, 107, 103,
      114, 111, 117, 110, 100, 58, 32, 35, 102, 54, 102, 57, 102, 56, 10,
      10, 35, 100, 101, 115, 105, 103, 110, 32, 35, 98, 114, 97, 110, 100,
      105, 110, 103>>

(* 'Paragraph 1\nParagraph 2\nParagraph 3' *)
ThreeParagraphs ==
    <<80, 97, 114, 97, 103, 114, 97, 112, 104, 32, 49, 10, 80, 97, 114, 97,
      103, 114, 97, 112, 104, 32, 50, 10, 80, 97, 114, 97, 103, 114, 97,
      112, 104, 32, 51>>

(* 'Line 1\n\nLine 2\n\n\nLine 3' *)
BlankLines ==
    <<76, 105, 110, 101, 32, 49, 10, 10, 76, 105, 110, 101, 32, 50, 10, 10,
      10, 76, 105, 110, 101, 32, 51>>

(* 'Post content #hashtag1 more text #hashtag2' *)
HashtagsInline ==
    <<80, 111, 115, 116, 32, 99, 111, 110, 116, 101, 110, 116, 32, 35, 104,
      97, 115, 104, 116, 97, 103, 49, 32, 109, 111, 114, 101, 32, 116, 101,
      120, 116, 32, 35, 104, 97, 115, 104, 116, 97, 103, 50>>

(* '**html** `kfjfjjfjfjfj` and more `code`' *)
BackticksScenario ==
    <<42, 42, 104, 116, 109, 108, 42, 42, 32, 96, 107, 102, 106, 102, 106,
      106, 102, 106, 102, 106, 102, 106, 96, 32, 97, 110, 100, 32, 109,
      111, 114, 101, 32, 96, 99, 111, 100, 101, 96>>

(* '`a``````': an inline span that ends where a fence starts. *)
InlineThenFence == <<96, 97, 96, 96, 96, 96, 96, 96>>

PreAlphabet == {LowerA, Star, Underscore, Tilde, Backtick, Backslash, NL, Dollar}
PreScenarios ==
    {HelloWorld, MultipleFormatting, InlineCodeScenario, EscapedScenario, SnakeCase,
     AcrossNewlines, AlreadyBold, AlreadyStrike, FencedScenario, MixedCodeScenario,
     InlineThenFence}
(* Two inline code spans with a short text between them: the restore loop *)
(* of restoreCodeBlocks runs over two ranges.                              *)
TwoSpans ==
    {c \o x \o d : c, d \in {<<Backtick, LowerA, Backtick>>, <<Backtick, Dollar, Backtick>>},
                   x \in TextsUpTo({LowerA, Underscore, Dollar}, MaxBetween)}
PreInputs == TextsUpTo(PreAlphabet, MaxPreLen) \cup PreScenarios \cup TwoSpans


(* A call of preprocessWhatsApp(input, {enabled}). *)
Preprocess(enabled) ==
    /\ op = "idle"
    /\ op' = "preprocessWhatsApp"
    /\ arg' = enabled
    /\ result' = preprocessSteps(input, [enabled |-> enabled, preserveCode |-> TRUE])
    /\ UNCHANGED <<input, page, editor>>

InitPre ==
    /\ input \in PreInputs /\ op = "idle" /\ arg = None /\ result = None
    /\ page = None /\ editor = None
NextPre == \E enabled \in BOOLEAN : Preprocess(enabled)
SpecPre == InitPre /\ [][NextPre]_vars

(* '**bold text**' *)
BoldTextSpan ==
    <<42, 42, 98, 111, 108, 100, 32, 116, 101, 120, 116, 42, 42>>

(* '*italic text*' *)
ItalicTextSpan ==
    <<42, 105, 116, 97, 108, 105, 99, 32, 116, 101, 120, 116, 42>>

(* '**bold** and *italic*' *)
MixedWhatsApp ==
    <<42, 42, 98, 111, 108, 100, 42, 42, 32, 97, 110, 100, 32, 42, 105,
      116, 97, 108, 105, 99, 42>>

(* '*bold* and _italic_' *)
MixedWhatsAppOut ==
    <<42, 98, 111, 108, 100, 42, 32, 97, 110, 100, 32, 95, 105, 116, 97,
      108, 105, 99, 95>>

Alphabet == {LowerA, LowerG, Hash, NL, Star, Backtick, SP, Dash}
Scenarios ==
    {BoldText, TwoHashtags, HexPalette, ThreeParagraphs, BlankLines, HashtagsInline,
     BackticksScenario, BoldTextSpan, ItalicTextSpan, MixedWhatsApp}
(* The characters escapeHtml replaces, among a letter and a hashtag mark. *)
HtmlAlphabet == {Amp, Lt, Gt, Quote, Apos, LowerA, Hash}
Inputs == TextsUpTo(Alphabet, MaxLen) \cup TextsUpTo(HtmlAlphabet, MaxHtmlLen) \cup Scenarios

(* The selectors a caller passes: the three of PresetType and others.      *)
Selectors == {"linkedin", "whatsapp", "email", "unknown", "LinkedIn", ""}

(* A call of applyPreset(input, preset). *)
ApplyPreset(preset) ==
    /\ op = "idle"
    /\ op' = "applyPreset"
    /\ arg' = preset
    /\ result' = applyPreset(input, preset)
    /\ UNCHANGED <<input, page, editor>>

Init ==
    /\ input \in Inputs /\ op = "idle" /\ arg = None /\ result = None
    /\ page = None /\ editor = None
Next == \E preset \in Selectors : ApplyPreset(preset)
Spec == Init /\ [][Next]_vars

(* '**html** `kfjfjjfjfjfj`' *)
BoldAndCode ==
    <<42, 42, 104, 116, 109, 108, 42, 42, 32, 96, 107, 102, 106, 102, 106,
      106, 102, 106, 102, 106, 102, 106, 96>>

(* '**bold** `code1` and `code2`' *)
TwoCodes ==
    <<42, 42, 98, 111, 108, 100, 42, 42, 32, 96, 99, 111, 100, 101, 49,
      96, 32, 97, 110, 100, 32, 96, 99, 111, 100, 101, 50, 96>>

(* 'This is ***bold italic*** text' *)
BoldItalicScenario ==
    <<84, 104, 105, 115, 32, 105, 115, 32, 42, 42, 42, 98, 111, 108, 100,
      32, 105, 116, 97, 108, 105, 99, 42, 42, 42, 32, 116, 101, 120, 116>>

(* '- Item 1\n- Item 2' *)
DashList ==
    <<45, 32, 73, 116, 101, 109, 32, 49, 10, 45, 32, 73, 116, 101, 109,
      32, 50>>

(* '* Item 1\n* Item 2' *)
AsteriskList ==
    <<42, 32, 73, 116, 101, 109, 32, 49, 10, 42, 32, 73, 116, 101, 109,
      32, 50>>

(* '  - Indented item' *)
IndentedItem ==
    <<32, 32, 45, 32, 73, 110, 100, 101, 110, 116, 101, 100, 32, 105, 116,
      101, 109>>

(* '1. First\n2. Second' *)
NumberedList ==
    <<49, 46, 32, 70, 105, 114, 115, 116, 10, 50, 46, 32, 83, 101, 99,
      111, 110, 100>>

(* 'Hello World!' *)
HelloWorldBang ==
    <<72, 101, 108, 108, 111, 32, 87, 111, 114, 108, 100, 33>>

(* 'Test123' *)
Test123 ==
    <<84, 101, 115, 116, 49, 50, 51>>

---------------------------------------------------------------------------
(* The exported functions of the Unicode formatter, each applied to the    *)
(* document: markdownToUnicode, listToBullets, and toBold, toItalic and    *)
(* toBoldItalic.                                                           *)

(* The characters the formatter distinguishes, and characters of every     *)
(* kind the glyph maps see: A Z a z 0 9 ! space, e-acute (U+00E9), Cyrillic *)
(* Zhe (U+0416), an emoji outside the basic plane (U+1F600) and a bold     *)
(* glyph (U+1D5D4).                                                        *)
FmtAlphabet == {LowerA, Min(Digit), Star, Underscore, Backtick, NL, Dollar, SP, Dash}
GlyphAlphabet == {65, 90, 97, 122, 48, 57, 33, 32, 233, 1046, 128512, 120276}

(* The delimiters of markdownToUnicode, and the texts between a pair of    *)
(* them.                                                                   *)
Delimiters ==
    {<<Star, Star, Star>>, <<Star, Star>>, <<Star>>, <<Underscore>>, <<Backtick>>}
Delimited == {d \o x \o d : d \in Delimiters, x \in TextsUpTo(FmtAlphabet, MaxInner)}

FmtScenarios ==
    {BoldAndCode, TwoCodes, BoldItalicScenario, DashList, AsteriskList, IndentedItem,
     NumberedList, HelloWorldBang, Test123}
FmtInputs ==
    TextsUpTo(FmtAlphabet, MaxFmtLen) \cup Delimited \cup TextsUpTo(GlyphAlphabet, MaxGlyphs)
        \cup FmtScenarios

Styles == {"bold", "italic", "boldItalic"}

(* A call of markdownToUnicode(input). *)
MarkdownToUnicode ==
    /\ op = "idle"
    /\ op' = "markdownToUnicode"
    /\ arg' = None
    /\ result' = markdownToUnicode(input)
    /\ UNCHANGED <<input, page, editor>>

(* A call of listToBullets(input). *)
ListToBullets ==
    /\ op = "idle"
    /\ op' = "listToBullets"
    /\ arg' = None
    /\ result' = listToBullets(input)
    /\ UNCHANGED <<input, page, editor>>

(* A call of toBold(input), toItalic(input) or toBoldItalic(input). *)
ToStyle(style) ==
    /\ op = "idle"
    /\ op' = "toStyle"
    /\ arg' = style
    /\ result' = Styled(style, input)
    /\ UNCHANGED <<input, page, editor>>

InitFmt ==
    /\ input \in FmtInputs /\ op = "idle" /\ arg = None /\ result = None
    /\ page = None /\ editor = None
NextFmt == MarkdownToUnicode \/ ListToBullets \/ \E style \in Styles : ToStyle(style)
SpecFmt == InitFmt /\ [][NextFmt]_vars

(* '# Hello\n\n**World**' *)
HelloHeading ==
    <<35, 32, 72, 101, 108, 108, 111, 10, 10, 42, 42, 87, 111, 114, 108,
      100, 42, 42>>

(* 'Post\n#hashtag' *)
PostHashtag ==
    <<80, 111, 115, 116, 10, 35, 104, 97, 115, 104, 116, 97, 103>>

(* '**bold**' *)
BoldWord ==
    <<42, 42, 98, 111, 108, 100, 42, 42>>

(* '# Email' *)
EmailHeading ==
    <<35, 32, 69, 109, 97, 105, 108>>

(* '*bold* text\n#tag' *)
ChatBoldTag ==
    <<42, 98, 111, 108, 100, 42, 32, 116, 101, 120, 116, 10, 35, 116, 97,
      103>>

(* '*bold*' *)
ChatBold ==
    <<42, 98, 111, 108, 100, 42>>

(* 'Check out [this link](https://example.com)' *)
LinkScenario ==
    <<67, 104, 101, 99, 107, 32, 111, 117, 116, 32, 91, 116, 104, 105,
      115, 32, 108, 105, 110, 107, 93, 40, 104, 116, 116, 112, 115, 58,
      47, 47, 101, 120, 97, 109, 112, 108, 101, 46, 99, 111, 109, 41>>

ConvAlphabet == {LowerA, Star, Underscore, Tilde, Hash, NL, Backtick}
ConvScenarios ==
    {HelloHeading, PostHashtag, BoldWord, EmailHeading, ChatBoldTag, ChatBold, LinkScenario}
ConvInputs == TextsUpTo(ConvAlphabet, MaxConvLen) \cup ConvScenarios

(* The presets a caller passes: none, the three of PresetType, others. *)
ConvPresets == {<<>>, <<"linkedin">>, <<"whatsapp">>, <<"email">>, <<"unknown">>, <<"">>}

(* A call of convert(input, {preprocess: {enabled}, preset}). *)
Convert(enabled, preset) ==
    /\ op = "idle"
    /\ op' = "convert"
    /\ arg' = [enabled |-> enabled, preset |-> preset]
    /\ result' = convert(input, [preprocess |-> [enabled |-> enabled],
                                 markdown |-> DefaultMarkdown, preset |-> preset])
    /\ UNCHANGED <<input, page, editor>>

InitConv ==
    /\ input \in ConvInputs /\ op = "idle" /\ arg = None /\ result = None
    /\ page = None /\ editor = None
NextConv == \E enabled \in BOOLEAN, preset \in ConvPresets : Convert(enabled, preset)
SpecConv == InitConv /\ [][NextConv]_vars

---------------------------------------------------------------------------
(* The page (page.tsx): the state of Home and its conversion effect.       *)

(* The values the editor, the preset selector and the toggle give; a       *)
(* preset of null is the empty sequence.                                   *)
PageTexts == {<<>>, <<LowerA>>, <<Star, LowerA, Star>>}
PagePresets == {<<>>, <<"linkedin">>, <<"whatsapp">>}

(* convert(markdown, {preprocess: {enabled: whatsappEnabled},              *)
(* preset: preset || undefined}), with the values the effect captured.     *)
Conversion(s) ==
    [markdown |-> s.markdown, preset |-> s.preset, whatsappEnabled |-> s.whatsappEnabled]

Converted(c) ==
    convert(c.markdown, [preprocess |-> [enabled |-> c.whatsappEnabled],
                         markdown |-> DefaultMarkdown, preset |-> c.preset])

(* The effect run after a render with new markdown, preset or              *)
(* whatsappEnabled: setResult(null) at once for an empty markdown, a       *)
(* conversion in flight otherwise.                                         *)
Effect(s) ==
    IF s.markdown = <<>>
    THEN [s EXCEPT !.result = None]
    ELSE [s EXCEPT !.pending = @ \cup {Conversion(s)}]

(* A conversion may start: the markdown is empty or fewer than MaxPending  *)
(* are in flight.                                                          *)
MayStart(s) == s.markdown = <<>> \/ Cardinality(s.pending) < MaxPending

Render(s) ==
    /\ MayStart(s)
    /\ page' = Effect(s)
    /\ UNCHANGED <<input, op, arg, result, editor>>

SetMarkdown(markdown) ==
    /\ page.markdown # markdown
    /\ Render([page EXCEPT !.markdown = markdown])

SetPreset(preset) ==
    /\ page.preset # preset
    /\ Render([page EXCEPT !.preset = preset])

SetWhatsappEnabled(pressed) ==
    /\ page.whatsappEnabled # pressed
    /\ Render([page EXCEPT !.whatsappEnabled = pressed])

(* A conversion in flight resolves: setResult(converted). *)
Resolve(c) ==
    /\ c \in page.pending
    /\ page' = [page EXCEPT !.result = Converted(c), !.pending = @ \ {c}]
    /\ UNCHANGED <<input, op, arg, result, editor>>

(* Home after its first render and effect: the markdown is empty. *)
InitPage ==
    /\ page = [markdown |-> <<>>, preset |-> <<>>, whatsappEnabled |-> FALSE,
               result |-> None, pending |-> {}]
    /\ input = <<>> /\ op = "idle" /\ arg = None /\ result = None /\ editor = None

NextPage ==
    \/ \E markdown \in PageTexts : SetMarkdown(markdown)
    \/ \E preset \in PagePresets : SetPreset(preset)
    \/ \E pressed \in BOOLEAN : SetWhatsappEnabled(pressed)
    \/ \E c \in page.pending : Resolve(c)

SpecPage == InitPage /\ [][NextPage]_vars

---------------------------------------------------------------------------
(* The editor (Editor): the autosave of the draft to localStorage and the  *)
(* load of the saved draft on mount.                                       *)

AUTOSAVE_INTERVAL == 1000

(* The values of the value prop and of localStorage key md-draft-v1; a     *)
(* key that was never written reads as null, the empty sequence, and a    *)
(* written one as the sequence of its one value.                           *)
EditorTexts == TextsUpTo({LowerA, Star}, MaxDraftLen)
SavedDrafts == {<<>>} \cup {<<t>> : t \in EditorTexts}

(* setTimeout(() => localStorage.setItem(STORAGE_KEY, value),              *)
(* AUTOSAVE_INTERVAL): the timer holds the value of the render that        *)
(* started it; latest marks the timer of the last run of the effect.       *)
setTimeout(value) == [value |-> value, remaining |-> AUTOSAVE_INTERVAL, latest |-> TRUE]

(* The effect's cleanup without its clearTimeout. *)
clearTimeoutNever(timers) == {[t EXCEPT !.latest = FALSE] : t \in timers}

(* return () => clearTimeout(timer): the cleanup of the last run.          *)
clearTimeout(timers) == {t \in timers : ~t.latest}

(* The autosave effect of a render with a new value: the cleanup of the    *)
(* last run, then a new timer; age is the time the value has been the      *)
(* editor value.                                                           *)
AutosaveEffect(e, value) ==
    [e EXCEPT !.value = value,
              !.timers = clearTimeout(@) \cup {setTimeout(value)},
              !.age = 0]

(* if (saved && !value): null and the empty string are falsy.              *)
Truthy(saved) == saved # <<>> /\ saved[1] # <<>>

(* The load effect of the mount: onChange(saved) asks for a render with    *)
(* the saved draft.                                                        *)
LoadEffect(e) ==
    IF Truthy(e.storage) /\ e.value = <<>>
    THEN [e EXCEPT !.phase = "loading", !.next = e.storage[1]]
    ELSE [e EXCEPT !.phase = "mounted"]

(* The first render of the editor and its two effects, in their order.     *)
Mount ==
    /\ editor.phase = "unmounted"
    /\ editor' = LoadEffect(AutosaveEffect(editor, editor.value))
    /\ UNCHANGED <<input, op, arg, result, page>>

(* The render the load effect asked for; no time passes before it.         *)
Rerender ==
    /\ editor.phase = "loading"
    /\ editor' = [AutosaveEffect(editor, editor.next) EXCEPT !.phase = "mounted"]
    /\ UNCHANGED <<input, op, arg, result, page>>

(* The user edits the text: onChange(value) and the render that follows.   *)
OnChange(value) ==
    /\ editor.phase = "mounted"
    /\ value # editor.value
    /\ editor' = AutosaveEffect(editor, value)
    /\ UNCHANGED <<input, op, arg, result, page>>

(* Time passes by TickMs, never past the moment a timer is due.            *)
Elapse(ms, by) == IF ms > by THEN ms - by ELSE 0
Older(age, by) == IF age + by < AUTOSAVE_INTERVAL THEN age + by ELSE AUTOSAVE_INTERVAL
Tick ==
    /\ editor.phase = "mounted"
    /\ \A t \in editor.timers : t.remaining > 0
    /\ editor' = [editor EXCEPT
                      !.timers = {[t EXCEPT !.remaining = Elapse(@, TickMs)] : t \in @},
                      !.age = Older(@, TickMs)]
    /\ UNCHANGED <<input, op, arg, result, page>>

(* A timer that is due runs its callback:                                  *)
(* localStorage.setItem(STORAGE_KEY, value).                               *)
Fire(t) ==
    /\ t \in editor.timers
    /\ t.remaining = 0
    /\ editor' = [editor EXCEPT !.storage = <<t.value>>, !.timers = @ \ {t}]
    /\ UNCHANGED <<input, op, arg, result, page>>

InitEditor ==
    /\ \E value \in EditorTexts, saved \in SavedDrafts :
           editor = [phase |-> "unmounted", value |-> value, next |-> <<>>,
                     storage |-> saved, timers |-> {}, age |-> 0]
    /\ input = <<>> /\ op = "idle" /\ arg = None /\ result = None /\ page = None
TimerFires == \E t \in editor.timers : Fire(t)
NextEditor ==
    \/ Mount
    \/ Rerender
    \/ \E value \in EditorTexts : OnChange(value)
    \/ Tick
    \/ TimerFires

(* Time passes and a due timer runs while the page is open; a render that  *)
(* was asked for happens.                                                  *)
SpecEditor ==
    /\ InitEditor
    /\ [][NextEditor]_vars
    /\ WF_vars(Mount)
    /\ WF_vars(Rerender)
    /\ WF_vars(Tick)
    /\ WF_vars(TimerFires)

---------------------------------------------------------------------------
(* Properties of the preset engine, under Spec.                            *)

(* The code spans of a text: fenced blocks first, then the inline spans    *)
(* that do not start inside a fence; and the literal content of a span,    *)
(* the span without its delimiters.                                        *)
CodeSpans(t) == protectCodeBlocks(t).protectedRanges

CodeContent(r) ==
    IF r.type = "fence" THEN SubSeq(r.original, 4, Len(r.original) - 3)
    ELSE SubSeq(r.original, 2, Len(r.original) - 1)

(* C1: for every input and every target, the literal content of every     *)
(* fenced block and inline code span of the input is in the markdown that  *)
(* applyPreset returns.                                                    *)
C1_CodeSpansKept ==
    (op = "applyPreset" /\ result.ok) =>
        \A k \in 1..Len(CodeSpans(input)) :
            Contains(result.markdown, CodeContent(CodeSpans(input)[k]))

(* C3: applying a target to the markdown it returned returns that markdown. *)
C3_Idempotent ==
    (op = "applyPreset" /\ result.ok) =>
        applyPreset(result.markdown, arg).markdown = result.markdown

(* A `#` followed by exactly 3, 4, 6 or 8 characters, all hexadecimal. *)
IsHexLiteral(token) ==
    /\ (Len(token) - 1) \in {3, 4, 6, 8}
    /\ \A k \in 2..Len(token) : token[k] \in HexDigit

HexLiterals(t) == SelectSeq(hashtagRegex(t), LAMBDA m : IsHexLiteral(m.match))
Accepted(t) == SelectSeq(hashtagRegex(t), LAMBDA m : ~IsHexLiteral(m.match))
Tokens(ms) == [k \in 1..Len(ms) |-> ms[k].match]

(* C4: in the linkedin target no hex literal is appended to the trailing   *)
(* hashtag list, and the hex literals of the text stay in its body.        *)
C4_HexLiteralsStay ==
    (op = "applyPreset" /\ arg = "linkedin") =>
        /\ \A k \in 1..Len(result.steps.hashtags) : ~IsHexLiteral(result.steps.hashtags[k])
        /\ Tokens(HexLiterals(result.steps.body)) = Tokens(HexLiterals(result.steps.spaced))

(* C5: when the text holds an accepted hashtag, the linkedin output is the *)
(* trimmed body without the accepted hashtags, then white space, then the  *)
(* accepted hashtags in their order, separated by single spaces.           *)
C5_HashtagsAtEnd ==
    (op = "applyPreset" /\ arg = "linkedin") =>
        LET acc == Accepted(result.steps.spaced)
            tags == Join(Tokens(acc), <<SP>>)
            body == Trim(ReplaceMatches(result.steps.spaced, acc, Nothing(acc)))
            out == result.markdown
        IN  acc # <<>> =>
                /\ Len(out) >= Len(body) + Len(tags)
                /\ Upto(out, Len(body) + 1) = body
                /\ From(out, Len(out) - Len(tags) + 1) = tags
                /\ \A k \in (Len(body) + 1)..(Len(out) - Len(tags)) : out[k] \in WhiteSpace

(* C9: a selector other than linkedin, whatsapp and email makes applyPreset *)
(* fail with `Unknown preset: <selector>`, and no result is returned.      *)
C9_UnknownPresetFails ==
    (op = "applyPreset" /\ arg \notin {"linkedin", "whatsapp", "email"}) =>
        result = [ok |-> FALSE, error |-> "Unknown preset: " \o arg]

C9_Witness ==
    /\ op = "applyPreset"
    /\ arg = "unknown"
    /\ ~result.ok
    /\ result.error = "Unknown preset: unknown"

(* C10: in the linkedin output every run of newlines is exactly two long:  *)
(* paragraphs are separated by exactly one blank line.                     *)
C10_OneBlankLine ==
    (op = "applyPreset" /\ arg = "linkedin") =>
        \A i \in 1..Len(result.markdown) :
            (result.markdown[i] = NL /\ (i = 1 \/ result.markdown[i - 1] # NL)) =>
                RunEnd(result.markdown, i, {NL}) - i = 2

(* t is p d x d q, the delimiters at positions i and j, where x is not     *)
(* empty and p, x and q hold no asterisk and no line terminator.           *)
IsStarSpan(t, d, i, j) ==
    /\ At(t, i, d) /\ At(t, j, d) /\ i + Len(d) < j
    /\ \A k \in 1..Len(t) :
           /\ t[k] \notin LineTerminator
           /\ t[k] = Star => (k \in i..(i + Len(d) - 1) \/ k \in j..(j + Len(d) - 1))

Respan(t, d, i, j, e) ==
    Upto(t, i) \o e \o SubSeq(t, i + Len(d), j - 1) \o e \o From(t, j + Len(d))

(* C12: in the whatsapp target a span **b** becomes *b* and a span *i*      *)
(* becomes _i_: the asterisks written for bold are not taken by the italic *)
(* rule; the mixed input of the test suite gives `*bold* and _italic_`.    *)
C12_ItalicThenBold ==
    (op = "applyPreset" /\ arg = "whatsapp") =>
        /\ \A i, j \in 1..Len(input) :
               /\ IsStarSpan(input, <<Star, Star>>, i, j) =>
                      result.markdown = Respan(input, <<Star, Star>>, i, j, <<Star>>)
               /\ IsStarSpan(input, <<Star>>, i, j) =>
                      result.markdown = Respan(input, <<Star>>, i, j, <<Underscore>>)
        /\ input = MixedWhatsApp => result.markdown = MixedWhatsAppOut

C12_Witness ==
    /\ op = "applyPreset"
    /\ arg = "whatsapp"
    /\ input = <<Star, Star, LowerA, Star, Star>>
    /\ result.markdown = <<Star, LowerA, Star>>

WithoutNewlines(t) == SelectSeq(t, LAMBDA c : c # NL)
NewlineRuns(t) == {k \in 1..Len(t) : t[k] = NL /\ (k = 1 \/ t[k - 1] # NL)}
HasBlankLine(t) == \E k \in 1..(Len(t) - 1) : t[k] = NL /\ t[k + 1] = NL

(* C13: the whatsapp target makes one newline of every run of newlines:    *)
(* the collapsed text keeps every other character in order and holds one   *)
(* newline for each run, and the markdown returned never holds two         *)
(* newlines in a row.                                                      *)
C13_NoBlankLines ==
    (op = "applyPreset" /\ arg = "whatsapp") =>
        /\ WithoutNewlines(result.steps.single) = WithoutNewlines(input)
        /\ Cardinality(NewlineRuns(result.steps.single)) = Cardinality(NewlineRuns(input))
        /\ ~HasBlankLine(result.steps.single)
        /\ ~HasBlankLine(result.markdown)

C13_Witness ==
    /\ op = "applyPreset"
    /\ arg = "whatsapp"
    /\ input = <<LowerA, NL, NL, NL, LowerA>>
    /\ result.markdown = <<LowerA, NL, LowerA>>

(* The lines of the input and the lines after the list step of the         *)
(* linkedin formatter.                                                     *)
IsListLine(line) == ListMarkerAt(line, 1).end # 0
BulletStart(line) == Upto(line, ListMarkerAt(line, 1).marker) \o <<Bullet, SP>>

(* C14: in the linkedin target every line written as indentation, `-` or   *)
(* `*`, whitespace starts, after the list step, with the same indentation, *)
(* the bullet and one space, whatever the line holds; a line that starts   *)
(* with a number keeps its start.                                          *)
C14_ListLinesBulleted ==
    (op = "applyPreset" /\ arg = "linkedin") =>
        \A k \in 1..Len(Split(input)) :
            /\ IsListLine(Split(input)[k]) =>
                   /\ k <= Len(Split(result.steps.bulleted))
                   /\ At(Split(result.steps.bulleted)[k], 1, BulletStart(Split(input)[k]))
            /\ (Split(input)[k] # <<>> /\ Split(input)[k][1] \in Digit) =>
                   /\ k <= Len(Split(result.steps.bulleted))
                   /\ At(Split(result.steps.bulleted)[k], 1, <<Split(input)[k][1]>>)

(* C20: the email target returns the markdown it was given, and its html  *)
(* is the fixed template around the renderer's output for that markdown.   *)
C20_EmailKeepsMarkdown ==
    (op = "applyPreset" /\ arg = "email") =>
        /\ result.ok
        /\ result.markdown = input
        /\ result.html.body = convertMarkdownToHtml(input,
                                  [gfm |-> TRUE, sanitize |-> TRUE, smartQuotes |-> TRUE])
        /\ result.html.open = applyEmailPreset(<<>>).html.open
        /\ result.html.close = applyEmailPreset(<<>>).html.close

C20_Witness ==
    /\ op = "applyPreset"
    /\ arg = "email"
    /\ input = BoldText
    /\ result.markdown = BoldText
    /\ result.html.body.rendered = BoldText

(* The character reference that stands for a markup character. *)
Entity(c) ==
    CASE c = Amp -> <<Amp, 97, 109, 112, 59>>
      [] c = Lt -> <<Amp, 108, 116, 59>>
      [] c = Gt -> <<Amp, 103, 116, 59>>
      [] c = Quote -> <<Amp, 113, 117, 111, 116, 59>>
      [] c = Apos -> <<Amp, 35, 48, 51, 57, 59>>

(* body is text with a character reference for each markup character and  *)
(* every other character as it is.                                         *)
RECURSIVE IsEscaped(_, _)
IsEscaped(body, text) ==
    IF text = <<>> THEN body = <<>>
    ELSE IF Head(text) \in {Amp, Lt, Gt, Quote, Apos}
         THEN /\ At(body, 1, Entity(Head(text)))
              /\ IsEscaped(From(body, Len(Entity(Head(text))) + 1), Tail(text))
         ELSE /\ body # <<>>
              /\ Head(body) = Head(text)
              /\ IsEscaped(Tail(body), Tail(text))

AfterMask(t) == MaskCode(t, Matches(t, codeRegex))
AfterBoldItalic(t) == StyleSpans(AfterMask(t), boldItalicSpan, "boldItalic")
AfterBold(t) == StyleSpans(AfterBoldItalic(t), boldSpan, "bold")
AfterItalic(t) == StyleSpans(AfterBold(t), italicSpan, "italic")

(* The spans the bold rule and the two italic rules convert to glyphs. *)
BoldConverted(t) == Len(Matches(AfterBoldItalic(t), boldSpan))
ItalicConverted(t) ==
    Len(Matches(AfterBold(t), italicSpan)) + Len(Matches(AfterItalic(t), underscoreSpan))

(* The number a note reports, 0 when the note is absent. *)
Reported(notes, note) ==
    IF \E k \in 1..Len(notes) : notes[k].note = note
    THEN notes[CHOOSE k \in 1..Len(notes) : notes[k].note = note].n
    ELSE 0

(* C27: the linkedin notes report what was done: the hashtag note is there *)
(* exactly when hashtags were appended and gives their number, the bold    *)
(* and italic notes give the number of spans converted to bold and italic  *)
(* glyphs.                                                                 *)
C27_NotesReportOperations ==
    (op = "applyPreset" /\ arg = "linkedin") =>
        /\ Reported(result.notes, "Moved N hashtag(s) to end") = Len(result.steps.hashtags)
        /\ Reported(result.notes, "Converted N bold text(s) to Unicode bold")
               = BoldConverted(input)
        /\ Reported(result.notes, "Converted N italic text(s) to Unicode italic")
               = ItalicConverted(input)

---------------------------------------------------------------------------
(* Properties of the preprocessor, under SpecPre.                          *)

(* C2: the enabled preprocessor returns every fenced block and every       *)
(* inline code span of its input unchanged.                                *)
C2_PreprocessKeepsCode ==
    (op = "preprocessWhatsApp" /\ arg = TRUE) =>
        \A k \in 1..Len(CodeSpans(input)) :
            Contains(result.text, CodeSpans(input)[k].original)

(* The delimiter at position i of t is escaped. *)
Escaped(t, i) == i > 1 /\ t[i - 1] = Backslash

(* The matches a transformation rewrote: those that hold no placeholder. *)
Rewritten(before, regex, protectedRanges) ==
    SelectSeq(Matches(before, regex),
              LAMBDA m : ~HoldsPlaceholder(m.match, protectedRanges))

NoEscapedDelimiter(before, regex, protectedRanges) ==
    LET ms == Rewritten(before, regex, protectedRanges)
    IN  \A k \in 1..Len(ms) :
            ~Escaped(before, ms[k].start) /\ ~Escaped(before, ms[k].end - 1)

(* C6: no rewrite of the preprocessor opens or closes on a delimiter that  *)
(* a backslash precedes.                                                   *)
C6_EscapedNeverRewritten ==
    (op = "preprocessWhatsApp" /\ arg = TRUE) =>
        /\ NoEscapedDelimiter(result.masked, strikeRegex, result.protectedRanges)
        /\ NoEscapedDelimiter(result.struck, boldRegex, result.protectedRanges)
        /\ NoEscapedDelimiter(result.bolded, italicRegex, result.protectedRanges)

(* A plain text: no delimiter, no backslash, no backtick, no newline. *)
IsPlain(x) ==
    /\ Len(x) >= 1
    /\ \A k \in 1..Len(x) :
           x[k] \notin {Star, Underscore, Tilde, Backtick, Backslash, NL}

Inner(t) == SubSeq(t, 2, Len(t) - 1)

(* t is d x d for a plain text x. *)
IsChatSpan(t, d) == Len(t) >= 3 /\ t[1] = d /\ t[Len(t)] = d /\ IsPlain(Inner(t))

(* C7: the rewrites run strikethrough, bold, italic: ~x~ becomes ~~x~~,    *)
(* *x* becomes **x** and _x_ becomes *x*, never **x**; the three together  *)
(* give the result the test suite expects.                                 *)
C7_RewriteOrder ==
    (op = "preprocessWhatsApp" /\ arg = TRUE) =>
        /\ IsChatSpan(input, Tilde) =>
               result.text = <<Tilde, Tilde>> \o Inner(input) \o <<Tilde, Tilde>>
        /\ IsChatSpan(input, Star) =>
               result.text = <<Star, Star>> \o Inner(input) \o <<Star, Star>>
        /\ IsChatSpan(input, Underscore) =>
               result.text = <<Star>> \o Inner(input) \o <<Star>>
        /\ input = MultipleFormatting => result.text = MultipleFormattingOut

C7_Witness ==
    /\ op = "preprocessWhatsApp"
    /\ arg = TRUE
    /\ input = <<Underscore, LowerA, Underscore>>
    /\ result.text = <<Star, LowerA, Star>>

(* C8: the disabled preprocessor returns its input, and neither masks nor  *)
(* rewrites.                                                               *)
C8_DisabledIsIdentity ==
    (op = "preprocessWhatsApp" /\ arg = FALSE) =>
        result = [enabled |-> FALSE, text |-> input]

C8_Witness ==
    /\ op = "preprocessWhatsApp"
    /\ arg = FALSE
    /\ input = <<Star, LowerA, Star>>
    /\ result.text = <<Star, LowerA, Star>>


(* No line of t holds two delimiter characters, and t holds no backtick   *)
(* and no backslash: every delimiter pair of t is split by a line break.   *)
PairsAcrossLines(t) ==
    /\ \A k \in 1..Len(t) : t[k] \notin {Backtick, Backslash}
    /\ \A k \in 1..Len(Split(t)) :
           Cardinality({i \in 1..Len(Split(t)[k]) :
                           Split(t)[k][i] \in {Star, Underscore, Tilde}}) <= 1

OnOneLine(before, regex, protectedRanges) ==
    \A k \in 1..Len(Rewritten(before, regex, protectedRanges)) :
        ~Contains(Rewritten(before, regex, protectedRanges)[k].match, <<NL>>)

(* C17: the preprocessor rewrites nothing across a line break: every span  *)
(* it rewrites lies on one line, and a text whose delimiters are each      *)
(* alone on their line is returned as it is, for the three rules.          *)
C17_SingleLine ==
    (op = "preprocessWhatsApp" /\ arg = TRUE) =>
        /\ OnOneLine(result.masked, strikeRegex, result.protectedRanges)
        /\ OnOneLine(result.struck, boldRegex, result.protectedRanges)
        /\ OnOneLine(result.bolded, italicRegex, result.protectedRanges)
        /\ PairsAcrossLines(input) => result.text = input

C17_Witness ==
    /\ op = "preprocessWhatsApp"
    /\ arg = TRUE
    /\ input = AcrossNewlines
    /\ PairsAcrossLines(input)
    /\ result.text = AcrossNewlines

(* The underscore pairs of t: two underscores with a text without          *)
(* underscore between them.                                                *)
UnderscorePairs(t) ==
    {p \in (1..Len(t)) \X (1..Len(t)) :
        /\ p[1] + 1 < p[2]
        /\ t[p[1]] = Underscore /\ t[p[2]] = Underscore
        /\ \A k \in (p[1] + 1)..(p[2] - 1) : t[k] # Underscore}

InsideWord(t, p) ==
    \/ p[1] > 1 /\ t[p[1] - 1] \in AlphaNum
    \/ p[2] < Len(t) /\ t[p[2] + 1] \in AlphaNum

(* t is made of letters, digits and underscores, and every underscore pair *)
(* of t has a letter or digit before its opening or after its closing.     *)
IdentifierStyle(t) ==
    /\ \A k \in 1..Len(t) : t[k] \in AlphaNum \cup {Underscore}
    /\ \A p \in UnderscorePairs(t) : InsideWord(t, p)

ItalicOutsideWords(before, protectedRanges) ==
    \A k \in 1..Len(Rewritten(before, italicRegex, protectedRanges)) :
        ~InsideWord(before, <<Rewritten(before, italicRegex, protectedRanges)[k].start,
                              Rewritten(before, italicRegex, protectedRanges)[k].end - 1>>)

(* C18: the italic rule rewrites no underscore pair that a letter or digit *)
(* precedes or follows: every pair it rewrites has neither, and an         *)
(* identifier such as my_variable_name is returned as it is.               *)
C18_IdentifiersKept ==
    (op = "preprocessWhatsApp" /\ arg = TRUE) =>
        /\ ItalicOutsideWords(result.bolded, result.protectedRanges)
        /\ IdentifierStyle(input) => result.text = input

C18_Witness ==
    /\ op = "preprocessWhatsApp"
    /\ arg = TRUE
    /\ input = SnakeCase
    /\ IdentifierStyle(input)
    /\ UnderscorePairs(input) # {}
    /\ result.text = SnakeCase

(* t is p d d x d d q with the doubled delimiter d at positions i and j,   *)
(* where x is plain and p and q hold no delimiter, backtick, backslash or  *)
(* newline.                                                                *)
IsCanonicalSpan(t, d, i, j) ==
    /\ At(t, i, <<d, d>>) /\ At(t, j, <<d, d>>) /\ i + 2 < j
    /\ IsPlain(SubSeq(t, i + 2, j - 1))
    /\ \A k \in (1..(i - 1)) \cup ((j + 2)..Len(t)) :
           t[k] \notin {Star, Underscore, Tilde, Backtick, Backslash, NL}

(* C19: a span already written **x** or ~~x~~ is returned as it is: the    *)
(* preprocessor adds no delimiter to it.                                   *)
C19_CanonicalKept ==
    (op = "preprocessWhatsApp" /\ arg = TRUE) =>
        \A d \in {Star, Tilde} : \A i, j \in 1..Len(input) :
            IsCanonicalSpan(input, d, i, j) => result.text = input

C19_Witness ==
    /\ op = "preprocessWhatsApp"
    /\ arg = TRUE
    /\ input = AlreadyBold
    /\ IsCanonicalSpan(input, Star, 1, Len(input) - 1)
    /\ result.text = AlreadyBold

(* The positions of t where p occurs. *)
Occurrences(t, p) == {i \in 1..Len(t) : At(t, i, p)}

Disjoint(r, q) == r.end <= q.start \/ q.end <= r.start

(* C24: the ranges protectCodeBlocks protects do not overlap, each of      *)
(* their placeholders occurs once in the masked text, and the text         *)
(* returned after restoreCodeBlocks holds no placeholder text.             *)
C24_MaskingInvariant ==
    (op = "preprocessWhatsApp" /\ arg = TRUE) =>
        /\ \A i, j \in 1..Len(result.protectedRanges) :
               i # j => Disjoint(result.protectedRanges[i], result.protectedRanges[j])
        /\ \A k \in 1..Len(result.protectedRanges) :
               Cardinality(Occurrences(result.masked,
                                       result.protectedRanges[k].placeholder)) = 1
        /\ ~Contains(result.text, FencePrefix)
        /\ ~Contains(result.text, InlinePrefix)

IsText(t) == DOMAIN t = 1..Len(t) /\ \A k \in 1..Len(t) : t[k] \in Nat

(* The ranges whose placeholder is missing from the text restoreCodeBlocks *)
(* is given.                                                               *)
Missing(processed, protectedRanges) ==
    {k \in 1..Len(protectedRanges) : ~Contains(processed, protectedRanges[k].placeholder)}

(* C25: preprocessWhatsApp returns a text for every input, the empty text  *)
(* for the empty one; a placeholder missing at restore time is skipped:    *)
(* the text is left as it is when all are missing, and every placeholder   *)
(* that is there is still replaced by its code.                            *)
C25_RestoreSkipsMissing ==
    op = "preprocessWhatsApp" =>
        /\ IsText(result.text)
        /\ input = <<>> => result.text = <<>>
        /\ (arg = TRUE /\ Missing(result.italicized, result.protectedRanges) # {}) =>
               /\ Missing(result.italicized, result.protectedRanges)
                      = 1..Len(result.protectedRanges) => result.text = result.italicized
               /\ \A k \in (1..Len(result.protectedRanges))
                           \ Missing(result.italicized, result.protectedRanges) :
                      /\ Contains(result.text, result.protectedRanges[k].original)
                      /\ ~Contains(result.text, result.protectedRanges[k].placeholder)

---------------------------------------------------------------------------
(* Properties of the Unicode formatter, under SpecFmt.                     *)

(* The inline code spans of a text, as markdownToUnicode finds them. *)
InlineCode(t) == CodeBlocks(Matches(t, codeRegex))

(* C11: markdownToUnicode returns every inline code span of its input      *)
(* unchanged, backticks and content, and leaves no fragment of a           *)
(* placeholder (no NUL) in its output.                                     *)
C11_CodeRestored ==
    op = "markdownToUnicode" =>
        /\ \A k \in 1..Len(InlineCode(input)) : Contains(result, InlineCode(input)[k])
        /\ \A k \in 1..Len(result) : result[k] # NUL

(* The glyph of code point c in a style: the letter of the same index in   *)
(* the style's uppercase or lowercase range, the digit of the same value   *)
(* in the bold range, and c itself otherwise.                              *)
Glyph(style, c) ==
    IF c \in UpperCase THEN UNICODE_MAPS[style].upper + (c - Min(UpperCase))
    ELSE IF c \in LowerCase THEN UNICODE_MAPS[style].lower + (c - Min(LowerCase))
    ELSE IF c \in Digit /\ style = "bold" THEN UNICODE_MAPS.bold.digits + (c - Min(Digit))
    ELSE c

(* C15: toBold, toItalic and toBoldItalic map a text code point by code    *)
(* point: letters to the glyph of the same index, digits to bold digits    *)
(* in toBold only, everything else to itself; the length is kept.          *)
C15_PerCharacterMap ==
    op = "toStyle" =>
        /\ Len(result) = Len(input)
        /\ \A k \in 1..Len(input) : result[k] = Glyph(arg, input[k])
        /\ (arg = "bold" /\ input = Test123) =>
               result = <<120295, 120306, 120320, 120321, 120813, 120814, 120815>>

C15_Witness ==
    /\ op = "toStyle"
    /\ arg = "italic"
    /\ input = <<128512, 48>>
    /\ result = <<128512, 48>>

(* t is p d x d q with the asterisk delimiters d at positions i and j,     *)
(* where x is not empty and p, x and q hold no asterisk, underscore,       *)
(* backtick or line terminator.                                            *)
IsGlyphSpan(t, d, i, j) ==
    /\ IsStarSpan(t, d, i, j)
    /\ \A k \in 1..Len(t) : t[k] \notin {Underscore, Backtick}

StyleOf(d) == CASE Len(d) = 3 -> "boldItalic" [] Len(d) = 2 -> "bold" [] Len(d) = 1 -> "italic"

(* C16: markdownToUnicode takes the longest delimiter run first: ***x***   *)
(* becomes the bold-italic glyphs of x, **x** the bold glyphs and *x* the  *)
(* italic glyphs, the text around the span is kept and no asterisk of the  *)
(* span is left.                                                           *)
C16_LongestFirst ==
    op = "markdownToUnicode" =>
        \A d \in {<<Star, Star, Star>>, <<Star, Star>>, <<Star>>} :
            \A i, j \in 1..Len(input) :
                IsGlyphSpan(input, d, i, j) =>
                    /\ result = Upto(input, i)
                                \o Styled(StyleOf(d), SubSeq(input, i + Len(d), j - 1))
                                \o From(input, j + Len(d))
                    /\ \A k \in 1..Len(result) : result[k] # Star

C16_Witness ==
    /\ op = "markdownToUnicode"
    /\ input = BoldItalicScenario
    /\ result = SubSeq(BoldItalicScenario, 1, 8)
                \o toBoldItalic(SubSeq(BoldItalicScenario, 12, 22))
                \o SubSeq(BoldItalicScenario, 26, 30)

---------------------------------------------------------------------------
(* Properties of the converter, under SpecConv.                            *)

(* '<a href="https://example.com">' and '<strong>' *)
AnchorElement ==
    <<60, 97, 32, 104, 114, 101, 102, 61, 34, 104, 116, 116,
      112, 115, 58, 47, 47, 101, 120, 97, 109, 112, 108, 101, 46, 99, 111, 109, 34, 62>>
StrongOpen == <<60, 115, 116, 114, 111, 110, 103, 62>>

(* C22: with the linkedin preset the html holds the rendered elements of   *)
(* the markdown: the link of the test input gives its <a href> element,    *)
(* and a chat-syntax bold span, preprocessed, gives a <strong> element.    *)
C22_LinkedInKeepsElements ==
    (op = "convert" /\ arg.preset = <<"linkedin">>) =>
        /\ input = LinkScenario => Contains(result.html.body, AnchorElement)
        /\ (arg.enabled /\ (input = ChatBoldTag \/ IsChatSpan(input, Star))) =>
               Contains(result.html.body, StrongOpen)

(* The text the first layer hands on for a call: the input, preprocessed   *)
(* when the call enables preprocessing.                                    *)
Handed(in, enabled) ==
    IF enabled THEN preprocessWhatsApp(in, [enabled |-> TRUE, preserveCode |-> TRUE]) ELSE in

(* C23: convert preprocesses only when enabled, then renders, then applies *)
(* the preset to the preprocessed markdown: with a preset the markdown and *)
(* html returned are the preset's, without one `preset` is undefined, the  *)
(* markdown is the preprocessed input (the input itself when disabled)     *)
(* and the html is its rendering.                                          *)
C23_LayerOrder ==
    op = "convert" =>
        /\ arg.preset \in {<<"linkedin">>, <<"whatsapp">>, <<"email">>} =>
               /\ result.preset = applyPreset(Handed(input, arg.enabled), arg.preset[1])
               /\ result.markdown = result.preset.markdown
               /\ result.html = result.preset.html
        /\ arg.preset = <<>> =>
               /\ result.preset = None
               /\ result.markdown = Handed(input, arg.enabled)
               /\ result.html = convertMarkdownToHtml(result.markdown, DefaultMarkdown)
               /\ ~arg.enabled => result.markdown = input

C23_Witness ==
    /\ op = "convert"
    /\ arg = [enabled |-> TRUE, preset |-> <<"whatsapp">>]
    /\ input = ChatBold
    /\ result.processedMarkdown = <<Star>> \o ChatBold \o <<Star>>
    /\ result.markdown = ChatBold

(* C28: preprocessing a chat-syntax span and then applying the whatsapp    *)
(* preset gives the span back: *x*, _x_ and ~x~, for a plain x, are the    *)
(* markdown returned.                                                      *)
C28_ChatRoundTrip ==
    (op = "convert" /\ arg = [enabled |-> TRUE, preset |-> <<"whatsapp">>]) =>
        \A d \in {Star, Underscore, Tilde} :
            IsChatSpan(input, d) => result.markdown = input

---------------------------------------------------------------------------
(* Properties of the page, under SpecPage.                                 *)

(* C29: once no conversion is in flight the page shows the conversion of   *)
(* the latest markdown, preset and toggle, and null when the latest        *)
(* markdown is empty: no earlier conversion overwrites a later result.     *)
C29_LatestResultShown ==
    page.pending = {} =>
        page.result = IF page.markdown = <<>> THEN None ELSE Converted(Conversion(page))

---------------------------------------------------------------------------
(* Properties of the editor, under SpecEditor.                             *)

(* A write to localStorage stores the editor value, which has been the     *)
(* editor value for the whole AUTOSAVE_INTERVAL.                           *)
WritesSettledValue ==
    editor.storage' # editor.storage =>
        /\ editor.storage' = <<editor.value>>
        /\ editor.age >= AUTOSAVE_INTERVAL

(* Every render with a new value leaves one timer, the one of that value:  *)
(* the timer of the value before is cancelled.                             *)
OneTimer ==
    editor.value' # editor.value =>
        editor.timers' = {setTimeout(editor.value')}

(* The mount with a saved non-empty draft and an empty value loads the     *)
(* draft, and the draft is still stored when it is loaded.                 *)
LoadsDraft ==
    (editor.phase = "loading" /\ editor.phase' = "mounted") =>
        /\ editor.storage # <<>> /\ editor.storage[1] # <<>>
        /\ editor.value' = editor.storage[1]
        /\ editor.storage' = editor.storage

(* A value that stays the editor value is stored. *)
StoredOnceEditsStop ==
    \A value \in EditorTexts :
        (editor.phase = "mounted" /\ editor.value = value)
            ~> (editor.storage = <<value>> \/ editor.value # value)

=============================================================================
